---- MODULE Spec2Model ----
(***************************************************************************)
(* Bitbucket Server scaffolder actions of plugins/scaffolder-backend:      *)
(*   bitbucketServer:repo:create, publish:bitbucketServer:repo:clone,      *)
(*   publish:bitbucketServer:push, bitbucketServer:branch:push and         *)
(*   bitbucketServer:pullRequest:open.                                     *)
(*                                                                         *)
(* Every handler is a linear async function.  One action of the model is   *)
(* one stretch of a handler between two awaits of an external collaborator *)
(* (an HTTP fetch or a git operation): the call, the answer the            *)
(* collaborator gives, and all the synchronous code that follows the       *)
(* answer up to the next external call, the throw, or the ctx.output       *)
(* calls that end the handler.                                             *)
(*                                                                         *)
(* Three specifications:                                                   *)
(*   Spec       one invocation, every input, a server and a git that may   *)
(*              answer anything;                                           *)
(*   SpecRace   NumRacers concurrent repo:create invocations against a     *)
(*              server that creates atomically and answers truthfully;     *)
(*   SpecMerge  the pure function getReviewers on bounded lists.           *)
(***************************************************************************)
EXTENDS Naturals, Sequences, FiniteSets

VARIABLES
    input,      \* [proc -> ctx.input plus what parseRepoUrl / the registry give]
    pc,         \* [proc -> position of the handler]
    loc,        \* [proc -> the handler's local constants]
    err,        \* [proc -> kind of the error the handler threw, NoVal if none]
    out,        \* [proc -> sequence of <<name, value>> given to ctx.output]
    calls,      \* [proc -> sequence of outbound HTTP / git calls with their answers]
    server,     \* repositories the atomic server holds (SpecRace)
    mRequired,  \* SpecMerge: requiredReviewers handed to getReviewers
    mUsers,     \* SpecMerge: users handed to getReviewers
    mResult,    \* SpecMerge: value getReviewers returned
    mDone       \* SpecMerge: getReviewers has returned

vars == <<input, pc, loc, err, out, calls, server, mRequired, mUsers, mResult, mDone>>

(***************************************************************************)
(* Bounds                                                                  *)
(***************************************************************************)
MaxLinks == 2        \* longest links.clone list in a server answer
MaxReviewers == 2    \* longest reviewer list (required or requested)
NumRacers == 2       \* concurrent repo:create invocations in SpecRace

(***************************************************************************)
(* JavaScript values                                                       *)
(***************************************************************************)
NoVal == "undefined"

\* JS truthiness of a string-or-undefined value
Truthy(x) == x \notin {NoVal, ""}

\* a ?? b
Nullish(a, b) == IF a = NoVal THEN b ELSE a

\* all sequences over S of length at most n
RECURSIVE SeqsUpTo(_, _)
SeqsUpTo(S, n) ==
    IF n = 0 THEN {<<>>}
    ELSE LET shorter == SeqsUpTo(S, n - 1)
         IN  shorter \cup {Append(s, x) : s \in {t \in shorter : Len(t) = n - 1}, x \in S}

Range(s) == {s[k] : k \in 1..Len(s)}

(***************************************************************************)
(* Reviewer merge: getReviewers (bitbucketServerPullRequestOpen)           *)
(***************************************************************************)
Usernames == {"alice", "bob", "carol"}

\* a required reviewer as the default-reviewers endpoint returns it
ServerReviewer(n) == [name |-> n]

\* an entry of the pull-request payload's reviewers field
User(n) == [user |-> [name |-> n]]

\* first loop of getReviewers: requiredUsers.push(name); reviewers.push({user})
RECURSIVE RequiredLoop(_, _, _)
RequiredLoop(requiredReviewers, index, acc) ==
    IF index > Len(requiredReviewers) THEN acc
    ELSE RequiredLoop(requiredReviewers, index + 1,
            [requiredUsers |-> Append(acc.requiredUsers, requiredReviewers[index].name),
             reviewers     |-> Append(acc.reviewers, User(requiredReviewers[index].name))])

\* second loop of getReviewers: requiredUsers.includes(user) ? continue : push
RECURSIVE UsersLoop(_, _, _, _)
UsersLoop(users, k, requiredUsers, reviewers) ==
    IF k > Len(users) THEN reviewers
    ELSE IF users[k] \in Range(requiredUsers)
         THEN UsersLoop(users, k + 1, requiredUsers, reviewers)
         ELSE UsersLoop(users, k + 1, requiredUsers, Append(reviewers, User(users[k])))

\* mutant: the includes() test is dropped, every requested user is pushed
RECURSIVE UsersLoopNoSkip(_, _, _, _)
UsersLoopNoSkip(users, k, requiredUsers, reviewers) ==
    IF k > Len(users) THEN reviewers
    ELSE UsersLoopNoSkip(users, k + 1, requiredUsers, Append(reviewers, User(users[k])))

getReviewersNoSkip(users, requiredReviewers) ==
    LET first == RequiredLoop(requiredReviewers, 1, [requiredUsers |-> <<>>, reviewers |-> <<>>])
    IN  UsersLoopNoSkip(users, 1, first.requiredUsers, first.reviewers)

getReviewers(users, requiredReviewers) ==
    LET first == RequiredLoop(requiredReviewers, 1, [requiredUsers |-> <<>>, reviewers |-> <<>>])
    IN  UsersLoop(users, 1, first.requiredUsers, first.reviewers)

(***************************************************************************)
(* Server answers                                                          *)
(***************************************************************************)
\* entries of links.clone
Links == { [name |-> "http", href |-> "u1"],
           [name |-> "http", href |-> "u2"],
           [name |-> "ssh",  href |-> "s1"] }

\* repository detail: id, links.clone, links.self
RepoBodies == [id : {"42"}, clone : SeqsUpTo(Links, MaxLinks), self : {<<>>, <<[href |-> "contents"]>>}]

NoBody == [id |-> NoVal, clone |-> <<>>, self |-> <<>>]

\* the text of an error answer that is not empty
ErrorBody == [id |-> "errors", clone |-> <<>>, self |-> <<>>]

\* fetch rejected (transport failure)
Rejected == [rejected |-> TRUE, status |-> 0, body |-> NoBody]

Answer(status, body) == [rejected |-> FALSE, status |-> status, body |-> body]

\* answers to GET /projects/{project}/repos/{repo}
LookupAnswers == {Rejected} \cup {Answer(st, NoBody) : st \in {201, 404, 500}}
                            \cup {Answer(404, ErrorBody)}
                            \cup {Answer(200, b) : b \in RepoBodies}

\* answers to POST /projects/{project}/repos
CreateAnswers == {Rejected} \cup {Answer(st, NoBody) : st \in {200, 400, 409, 500}}
                            \cup {Answer(201, b) : b \in RepoBodies}

\* answers to PUT .../git-lfs/admin/projects/{project}/repos/{repo}/enabled
LfsAnswers == {Rejected} \cup {Answer(st, NoBody) : st \in {200, 204, 404, 500}}

\* Response.ok of node-fetch: status in the range 200-299
Ok(resp) == resp.status >= 200 /\ resp.status <= 299

(***************************************************************************)
(* Results of the helper functions: a returned value or a thrown error     *)
(***************************************************************************)
NoRecord == [remoteUrl |-> NoVal, repoContentsUrl |-> NoVal, repoId |-> NoVal]

\* what the message of a thrown Error holds of the answer that caused it
NoMessage == [status |-> NoVal, body |-> NoVal, cause |-> NoVal]

\* `..., ${response.status} ${response.statusText}, ${await response.text()}`
StatusMessage(resp) == [status |-> resp.status, body |-> resp.body, cause |-> NoVal]

\* `..., ${e}` with the error fetch rejected with
CauseMessage == [status |-> NoVal, body |-> NoVal, cause |-> "FetchError"]

\* `...,${JSON.stringify(r)},  ${e}` with the TypeError of the parse
BodyMessage(resp) == [status |-> NoVal, body |-> resp.body, cause |-> "TypeError"]

Return(v) == [thrown |-> NoVal, value |-> v, message |-> NoMessage]

Throw(kind) == [thrown |-> kind, value |-> NoRecord, message |-> NoMessage]

ThrowWith(kind, message) == [thrown |-> kind, value |-> NoRecord, message |-> message]

\* for (const link of r.links.clone) if (link.name === 'http') remoteUrl = link.href
RECURSIVE ScanClone(_, _, _)
ScanClone(clone, k, remoteUrl) ==
    IF k > Len(clone) THEN remoteUrl
    ELSE ScanClone(clone, k + 1, IF clone[k].name = "http" THEN clone[k].href ELSE remoteUrl)

\* r.links.self[0].href: reading href of undefined throws a TypeError
SelfHref(r) == IF Len(r.self) = 0 THEN Throw("TypeError") ELSE Return(r.self[1].href)

\* mutant: a repository without a clone link named http is a failed lookup
getRepoInfoStrict(resp) ==
    IF resp.rejected THEN ThrowWith("RepositoryLookupFailed", CauseMessage)
    ELSE IF resp.status # 200 THEN ThrowWith("RepositoryLookupFailed", StatusMessage(resp))
    ELSE LET r == resp.body
             repoId == r.id
             remoteUrl == ScanClone(r.clone, 1, "")
             self == SelfHref(r)
         IN  IF self.thrown # NoVal THEN Throw(self.thrown)
             ELSE IF remoteUrl = "" THEN ThrowWith("RepositoryLookupFailed", StatusMessage(resp))
             ELSE Return([remoteUrl |-> remoteUrl, repoContentsUrl |-> self.value, repoId |-> repoId])

\* getRepoInfo of bitbucketServerUtil
getRepoInfo(resp) ==
    IF resp.rejected THEN ThrowWith("RepositoryLookupFailed", CauseMessage)
    ELSE IF resp.status # 200 THEN ThrowWith("RepositoryLookupFailed", StatusMessage(resp))
    ELSE LET r == resp.body
             repoId == r.id
             remoteUrl == ScanClone(r.clone, 1, "")
             self == SelfHref(r)
         IN  IF self.thrown # NoVal THEN Throw(self.thrown)
             ELSE Return([remoteUrl |-> remoteUrl, repoContentsUrl |-> self.value, repoId |-> repoId])

\* mutant: the status test is !response.ok, so every 2xx answer is parsed
getRepoInfoCloneAnyOk(resp) ==
    IF resp.rejected THEN ThrowWith("RepositoryLookupFailed", CauseMessage)
    ELSE IF ~Ok(resp) THEN ThrowWith("RepositoryLookupFailed", StatusMessage(resp))
    ELSE LET r == resp.body
             remoteUrl == ScanClone(r.clone, 1, "")
             self == SelfHref(r)
         IN  IF self.thrown # NoVal THEN Throw(self.thrown)
             ELSE Return([remoteUrl |-> remoteUrl, repoContentsUrl |-> self.value, repoId |-> NoVal])

\* getRepoInfo local to the repo:clone action: no repoId in the result
getRepoInfoClone(resp) ==
    IF resp.rejected THEN ThrowWith("RepositoryLookupFailed", CauseMessage)
    ELSE IF resp.status # 200 THEN ThrowWith("RepositoryLookupFailed", StatusMessage(resp))
    ELSE LET r == resp.body
             remoteUrl == ScanClone(r.clone, 1, "")
             self == SelfHref(r)
         IN  IF self.thrown # NoVal THEN Throw(self.thrown)
             ELSE Return([remoteUrl |-> remoteUrl, repoContentsUrl |-> self.value, repoId |-> NoVal])

\* mutant: the scan stops at the first clone link named http
getRepositoryRemoteUrlFirst(resp) ==
    IF resp.rejected THEN ThrowWith("RepositoryLookupFailed", CauseMessage)
    ELSE IF resp.status # 200 THEN ThrowWith("RepositoryLookupFailed", StatusMessage(resp))
    ELSE LET r == resp.body
             named == {k \in 1..Len(r.clone) : r.clone[k].name = "http"}
             remoteUrl == IF named = {} THEN ""
                          ELSE r.clone[CHOOSE k \in named : \A j \in named : k <= j].href
         IN  Return([remoteUrl |-> remoteUrl, repoContentsUrl |-> NoVal, repoId |-> NoVal])

\* getRepositoryRemoteUrl of the publish push action: the remoteUrl alone
getRepositoryRemoteUrl(resp) ==
    IF resp.rejected THEN ThrowWith("RepositoryLookupFailed", CauseMessage)
    ELSE IF resp.status # 200 THEN ThrowWith("RepositoryLookupFailed", StatusMessage(resp))
    ELSE LET r == resp.body
             remoteUrl == ScanClone(r.clone, 1, "")
         IN  Return([remoteUrl |-> remoteUrl, repoContentsUrl |-> NoVal, repoId |-> NoVal])

(***************************************************************************)
(* Inputs of one invocation                                                *)
(***************************************************************************)
Kinds == {"repoCreate", "repoClone", "publishPush", "branchPush", "pullRequestOpen"}

\* integrationConfig.config of the host, as far as the handlers read it
Configs == { [token |-> t, username |-> u.username, password |-> u.password] :
                t \in {NoVal, "tokC"},
                u \in { [username |-> NoVal, password |-> NoVal],
                        [username |-> "usr", password |-> "pwd"] } }

\* requested reviewers of the invocations of Spec (SpecMerge covers every list)
RequestedLists == { <<>>, <<"bob", "carol">>, <<"carol", "carol">> }

\* ctx.input, with project/repo as parseRepoUrl returns them and the
\* registry's answer for the host
AllInputs ==
    [ kind           : Kinds,
      project        : {"", "TEAM"},
      repo           : {"svc"},
      hasIntegration : BOOLEAN,
      token          : {NoVal, "", "tokO"},
      config         : Configs,
      enableLFS      : BOOLEAN,
      reviewers      : RequestedLists,
      baseBranch     : {NoVal, "develop"},
      clonePath      : {NoVal, "sub"},
      branch         : {NoVal, "main"},
      gitCommitMessage : {NoVal, "", "msg"} ]

\* fields a handler does not read are held at one value
Inputs ==
    { in \in AllInputs :
        /\ (in.kind # "repoCreate" => in.enableLFS = FALSE)
        /\ (in.kind # "pullRequestOpen" => in.reviewers = <<>>)
        /\ (in.kind # "repoClone" => in.baseBranch = NoVal /\ in.clonePath = NoVal)
        /\ (in.kind # "publishPush" => in.branch = "main")
        /\ (in.kind \notin {"publishPush", "branchPush"} => in.gitCommitMessage = NoVal) }

(***************************************************************************)
(* Auth Resolver                                                           *)
(***************************************************************************)
NoAuthorization == [scheme |-> NoVal, cred |-> NoVal]

\* getBitbucketServerRequestOptions(authConfig).headers.Authorization
getBitbucketServerRequestOptions(authConfig) ==
    IF Truthy(authConfig.token)
    THEN [scheme |-> "Bearer", cred |-> authConfig.token]
    ELSE IF Truthy(authConfig.username) /\ Truthy(authConfig.password)
         THEN [scheme |-> "Basic", cred |-> authConfig.username]
         ELSE NoAuthorization

\* const token = ctx.input.token ?? integrationConfig.config.token
ResolveToken(in) == Nullish(in.token, in.config.token)

\* const authConfig = { ...integrationConfig.config, ...{ token } }
AuthConfig(in) == [in.config EXCEPT !.token = ResolveToken(in)]

NoGitAuth == [token |-> NoVal, username |-> NoVal, password |-> NoVal]

\* const auth = authConfig.token ? { token } : { username, password }
GitAuth(in) ==
    IF Truthy(AuthConfig(in).token)
    THEN [token |-> ResolveToken(in), username |-> NoVal, password |-> NoVal]
    ELSE [token |-> NoVal, username |-> AuthConfig(in).username,
          password |-> AuthConfig(in).password]

\* mutant: the project check never fires
ProjectMissingNever(project) == FALSE

\* if (!project) throw new InputError(...)
ProjectMissing(project) == ~Truthy(project)

\* mutant: the authorization check never fires
AuthorizationMissingNever(authorization) == FALSE

\* if (!authorization) throw new Error(...)
AuthorizationMissing(authorization) == ~Truthy(authorization.scheme)

(***************************************************************************)
(* Steps of a handler                                                      *)
(***************************************************************************)
NoLoc == [authorization |-> NoAuthorization, auth |-> NoGitAuth, record |-> NoRecord,
          reviewers |-> <<>>, message |-> NoMessage]

\* the handler goes on to its next await
Goto(p, l) == [pc |-> p, err |-> NoVal, out |-> <<>>, loc |-> l]

\* the handler throws: the invocation ends, nothing is output
Failed(kind, l) == [pc |-> "failed", err |-> kind, out |-> <<>>, loc |-> l]

\* the handler lets the error a helper threw escape, message included
Rethrow(res, l) == Failed(res.thrown, [l EXCEPT !.message = res.message])

\* the handler reaches its ctx.output calls and returns
Finished(outputs, l) == [pc |-> "done", err |-> NoVal, out |-> outputs, loc |-> l]

\* mutant: the integration configuration is looked up before the project is
\* tested
HandlerHeadIntegrationFirst(in) ==
    IF ~in.hasIntegration THEN Failed("NoIntegration", NoLoc)
    ELSE IF ProjectMissing(in.project) THEN Failed("InvalidLocation", NoLoc)
    ELSE LET authorization == getBitbucketServerRequestOptions(AuthConfig(in))
         IN  IF AuthorizationMissing(authorization) THEN Failed("MissingCredentials", NoLoc)
             ELSE LET l == [NoLoc EXCEPT
                              !.authorization = authorization,
                              !.auth = IF in.kind \in {"repoClone", "publishPush", "branchPush"}
                                       THEN GitAuth(in) ELSE NoGitAuth]
                  IN  IF in.kind = "repoCreate" THEN Goto("createPost", l)
                      ELSE Goto("lookup", l)

\* the synchronous head of every handler, up to the first await
HandlerHead(in) ==
    IF ProjectMissing(in.project) THEN Failed("InvalidLocation", NoLoc)
    ELSE IF ~in.hasIntegration THEN Failed("NoIntegration", NoLoc)
    ELSE LET authorization == getBitbucketServerRequestOptions(AuthConfig(in))
         IN  IF AuthorizationMissing(authorization) THEN Failed("MissingCredentials", NoLoc)
             ELSE LET l == [NoLoc EXCEPT
                              !.authorization = authorization,
                              !.auth = IF in.kind \in {"repoClone", "publishPush", "branchPush"}
                                       THEN GitAuth(in) ELSE NoGitAuth]
                  IN  IF in.kind = "repoCreate" THEN Goto("createPost", l)
                      ELSE Goto("lookup", l)

\* one outbound call with the answer it got
Call(op, target, in, authorization, contentType, arg, resp) ==
    [op |-> op, target |-> target, project |-> in.project, repo |-> in.repo,
     authorization |-> authorization, contentType |-> contentType,
     arg |-> arg, resp |-> resp]

Procs == DOMAIN pc

\* mutant: the handler's locals live in one module-level object that every
\* invocation writes
AdvanceShared(i, next) ==
    /\ pc'  = [pc  EXCEPT ![i] = next.pc]
    /\ err' = [err EXCEPT ![i] = next.err]
    /\ out' = [out EXCEPT ![i] = out[i] \o next.out]
    /\ loc' = [j \in DOMAIN loc |-> next.loc]

\* the variables of invocation i after a step
Advance(i, next) ==
    /\ pc'  = [pc  EXCEPT ![i] = next.pc]
    /\ err' = [err EXCEPT ![i] = next.err]
    /\ out' = [out EXCEPT ![i] = out[i] \o next.out]
    /\ loc' = [loc EXCEPT ![i] = next.loc]

mergeVars == <<mRequired, mUsers, mResult, mDone>>

\* handler(ctx), from its first line to the first await
Resolve(i) ==
    /\ pc[i] = "start"
    /\ Advance(i, HandlerHead(input[i]))
    /\ UNCHANGED <<input, calls, server, mergeVars>>

(***************************************************************************)
(* bitbucketServer:repo:create                                             *)
(***************************************************************************)
\* body of the create POST: defaultBranch = 'master', repoVisibility = 'private'
CreatePayload(in) ==
    [name |-> in.repo, description |-> NoVal, defaultBranch |-> "master", public |-> FALSE]

\* mutant: a 409 is not told apart from the other statuses
ConflictNever(resp) == FALSE

\* if (response.status === 409) return getRepoInfo(...)
Conflict(resp) == ~resp.rejected /\ resp.status = 409

\* mutant: the status test is !response.ok, so every 2xx answer is parsed
createRepositoryAnswerAnyOk(resp) ==
    IF resp.rejected THEN ThrowWith("RepositoryCreateFailed", CauseMessage)
    ELSE IF ~Ok(resp) THEN ThrowWith("RepositoryCreateFailed", StatusMessage(resp))
    ELSE LET r == resp.body
             self == SelfHref(r)
         IN  IF self.thrown # NoVal THEN Throw(self.thrown)
             ELSE Return([remoteUrl |-> ScanClone(r.clone, 1, ""),
                          repoContentsUrl |-> self.value, repoId |-> r.id])

\* createRepository when the POST did not answer 409
createRepositoryAnswer(resp) ==
    IF resp.rejected THEN ThrowWith("RepositoryCreateFailed", CauseMessage)
    ELSE IF resp.status # 201 /\ resp.status # 409
         THEN ThrowWith("RepositoryCreateFailed", StatusMessage(resp))
    ELSE LET r == resp.body
             repoId == r.id
             remoteUrl == ScanClone(r.clone, 1, "")
             self == SelfHref(r)
         IN  IF self.thrown # NoVal THEN Throw(self.thrown)
             ELSE Return([remoteUrl |-> remoteUrl, repoContentsUrl |-> self.value, repoId |-> repoId])

\* mutant: the conflict branch uses the lookup that returns no repoId
createRepositoryReuseLocal(resp) == getRepoInfoClone(resp)

\* mutant: after a 409 a failed lookup is taken as a repository without detail
createRepositoryReuseAnyway(resp) ==
    IF getRepoInfo(resp).thrown # NoVal THEN Return(NoRecord) ELSE getRepoInfo(resp)

\* createRepository after a 409: what getRepoInfo of bitbucketServerUtil gives
createRepositoryReuse(resp) == getRepoInfo(resp)

\* ctx.output('remoteUrl'), ctx.output('repoContentsUrl'), ctx.output('repoId')
CreateOutputs(record) ==
    << <<"remoteUrl", record.remoteUrl>>,
       <<"repoContentsUrl", record.repoContentsUrl>>,
       <<"repoId", record.repoId>> >>

\* mutant: the outputs are written before LFS is enabled
CreateHandlerTailEarlyOutput(in, l, res) ==
    IF res.thrown # NoVal THEN Rethrow(res, l)
    ELSE IF in.enableLFS
         THEN [Goto("lfs", [l EXCEPT !.record = res.value]) EXCEPT !.out = CreateOutputs(res.value)]
         ELSE Finished(CreateOutputs(res.value), [l EXCEPT !.record = res.value])

\* the handler once createRepository has settled: if (enableLFS) ... ctx.output
CreateHandlerTail(in, l, res) ==
    IF res.thrown # NoVal THEN Rethrow(res, l)
    ELSE IF in.enableLFS
         THEN Goto("lfs", [l EXCEPT !.record = res.value])
         ELSE Finished(CreateOutputs(res.value), [l EXCEPT !.record = res.value])

\* mutant: a failed PUT is swallowed
performEnableLFSSwallow(resp) == IF resp.rejected THEN "FetchError" ELSE NoVal

\* performEnableLFS: the error it throws, NoVal when it returns
performEnableLFS(resp) ==
    IF resp.rejected THEN "FetchError"
    ELSE IF ~Ok(resp) THEN "LfsEnableFailed"
    ELSE NoVal

\* mutant: a failed PUT is sent again
LfsTailRetry(l, thrown) ==
    IF thrown # NoVal THEN Goto("lfs", l) ELSE Finished(CreateOutputs(l.record), l)

\* the handler once performEnableLFS has settled
LfsTail(l, thrown) ==
    IF thrown # NoVal THEN Failed(thrown, l) ELSE Finished(CreateOutputs(l.record), l)

\* createRepository: the POST and what follows its answer
CreatePost(i, resp) ==
    /\ pc[i] = "createPost"
    /\ input[i].kind = "repoCreate"
    /\ calls' = [calls EXCEPT ![i] = Append(@,
                    Call("POST", "repos", input[i], loc[i].authorization, TRUE,
                         CreatePayload(input[i]), resp))]
    /\ IF Conflict(resp)
       THEN Advance(i, Goto("reuseLookup", loc[i]))
       ELSE Advance(i, CreateHandlerTail(input[i], loc[i], createRepositoryAnswer(resp)))
    /\ UNCHANGED <<input, mergeVars>>

\* createRepository: the lookup issued after a 409
ReuseLookup(i, resp) ==
    /\ pc[i] = "reuseLookup"
    /\ calls' = [calls EXCEPT ![i] = Append(@,
                    Call("GET", "repo", input[i], loc[i].authorization, TRUE, NoVal, resp))]
    /\ Advance(i, CreateHandlerTail(input[i], loc[i], createRepositoryReuse(resp)))
    /\ UNCHANGED <<input, mergeVars>>

\* performEnableLFS: the PUT (its headers hold Authorization alone)
EnableLFS(i, resp) ==
    /\ pc[i] = "lfs"
    /\ calls' = [calls EXCEPT ![i] = Append(@,
                    Call("PUT", "lfs", input[i], loc[i].authorization, FALSE, NoVal, resp))]
    /\ Advance(i, LfsTail(loc[i], performEnableLFS(resp)))
    /\ UNCHANGED <<input, mergeVars>>

(***************************************************************************)
(* The repository lookup that opens the other four handlers                *)
(***************************************************************************)
\* the lookup each handler calls
LookupOf(kind, resp) ==
    CASE kind = "repoClone"   -> getRepoInfoClone(resp)
      [] kind = "publishPush" -> getRepositoryRemoteUrl(resp)
      [] OTHER                -> getRepoInfo(resp)

\* the await that follows the lookup in each handler
AfterLookup(kind) ==
    CASE kind = "repoClone"       -> "gitClone"
      [] kind = "pullRequestOpen" -> "reviewers"
      [] OTHER                    -> "gitPush"

\* mutant: a failed lookup is logged and the handler goes on
LookupTailContinues(in, l, res) ==
    IF res.thrown # NoVal
    THEN [Goto(AfterLookup(in.kind), l) EXCEPT !.err = res.thrown]
    ELSE Goto(AfterLookup(in.kind), [l EXCEPT !.record = res.value])

LookupTail(in, l, res) ==
    IF res.thrown # NoVal THEN Rethrow(res, l)
    ELSE Goto(AfterLookup(in.kind), [l EXCEPT !.record = res.value])

Lookup(i, resp) ==
    /\ pc[i] = "lookup"
    /\ calls' = [calls EXCEPT ![i] = Append(@,
                    Call("GET", "repo", input[i], loc[i].authorization, TRUE, NoVal, resp))]
    /\ Advance(i, LookupTail(input[i], loc[i], LookupOf(input[i].kind, resp)))
    /\ UNCHANGED <<input, mergeVars>>

(***************************************************************************)
(* publish:bitbucketServer:repo:clone                                      *)
(***************************************************************************)
\* mutant: the base branch has no default
BaseBranchNoDefault(in) == in.baseBranch

\* baseBranch = 'master'
BaseBranch(in) == IF in.baseBranch = NoVal THEN "master" ELSE in.baseBranch

\* clonePath = ctx.workspacePath
ClonePath(in) == IF in.clonePath = NoVal THEN "workspacePath" ELSE in.clonePath

\* checkoutBranch is a required input
CheckoutBranch(in) == "feature/update"

GitAnswers == {"ok", "throws"}

GitCall(op, in, arg, answer) == Call(op, "git", in, NoAuthorization, FALSE, arg, answer)

CloneOutputs(in, record) ==
    << <<"remoteUrl", record.remoteUrl>>,
       <<"repoContentsUrl", record.repoContentsUrl>>,
       <<"clonePath", ClonePath(in)>> >>

\* mutant: a failed clone is swallowed and the handler goes on to git.branch
GitCloneSwallow(i, answer) ==
    /\ pc[i] = "gitClone"
    /\ calls' = [calls EXCEPT ![i] = Append(@,
                    GitCall("git.clone", input[i],
                            [url |-> loc[i].record.remoteUrl, dir |-> ClonePath(input[i]),
                             ref |-> BaseBranch(input[i])], answer))]
    /\ Advance(i, Goto("gitBranch", loc[i]))
    /\ UNCHANGED <<input, mergeVars>>

\* await git.clone({ url: remoteUrl, dir: clonePath, ref: baseBranch })
GitClone(i, answer) ==
    /\ pc[i] = "gitClone"
    /\ calls' = [calls EXCEPT ![i] = Append(@,
                    GitCall("git.clone", input[i],
                            [url |-> loc[i].record.remoteUrl, dir |-> ClonePath(input[i]),
                             ref |-> BaseBranch(input[i])], answer))]
    /\ Advance(i, IF answer = "throws" THEN Failed("GitError", loc[i])
                  ELSE Goto("gitBranch", loc[i]))
    /\ UNCHANGED <<input, mergeVars>>

\* await git.branch({ dir: clonePath, ref: checkoutBranch })
GitBranch(i, answer) ==
    /\ pc[i] = "gitBranch"
    /\ calls' = [calls EXCEPT ![i] = Append(@,
                    GitCall("git.branch", input[i],
                            [dir |-> ClonePath(input[i]), ref |-> CheckoutBranch(input[i])],
                            answer))]
    /\ Advance(i, IF answer = "throws" THEN Failed("GitError", loc[i])
                  ELSE Goto("gitCheckout", loc[i]))
    /\ UNCHANGED <<input, mergeVars>>

\* await git.checkout({ dir: clonePath, ref: checkoutBranch }), then the outputs
GitCheckout(i, answer) ==
    /\ pc[i] = "gitCheckout"
    /\ calls' = [calls EXCEPT ![i] = Append(@,
                    GitCall("git.checkout", input[i],
                            [dir |-> ClonePath(input[i]), ref |-> CheckoutBranch(input[i])],
                            answer))]
    /\ Advance(i, IF answer = "throws" THEN Failed("GitError", loc[i])
                  ELSE Finished(CloneOutputs(input[i], loc[i].record), loc[i]))
    /\ UNCHANGED <<input, mergeVars>>

(***************************************************************************)
(* publish:bitbucketServer:push and bitbucketServer:branch:push            *)
(***************************************************************************)
\* mutant: both push actions default to the same message
DefaultCommitMessageSame(kind) == "commit by backstage"

\* gitCommitMessage = 'commit by backstage' / 'init commit by backstage'
DefaultCommitMessage(kind) ==
    IF kind = "publishPush" THEN "commit by backstage" ELSE "init commit by backstage"

\* commitMessage: gitCommitMessage ? gitCommitMessage
\*                : config.getOptionalString('scaffolder.defaultCommitMessage')
CommitMessage(in) ==
    LET gitCommitMessage == IF in.gitCommitMessage = NoVal
                            THEN DefaultCommitMessage(in.kind) ELSE in.gitCommitMessage
    IN  IF Truthy(gitCommitMessage) THEN gitCommitMessage
        ELSE "scaffolder.defaultCommitMessage"

\* targetBranch = 'backstage/update' (publish push); branch is required (branch push)
PushBranch(in) == IF in.branch = NoVal THEN "backstage/update" ELSE in.branch

\* what initRepoAndPush gives: it throws, or returns a result with or without a hash
PushAnswers == {"throws", "c0ffee", NoVal}

\* ctx.output('commitHash', commitResult?.commitHash); ctx.output('remoteUrl', remoteUrl)
PushOutputs(record, answer) ==
    << <<"commitHash", answer>>, <<"remoteUrl", record.remoteUrl>> >>

\* await initRepoAndPush({...}), then the outputs
GitPush(i, answer) ==
    /\ pc[i] = "gitPush"
    /\ calls' = [calls EXCEPT ![i] = Append(@,
                    GitCall("initRepoAndPush", input[i],
                            [remoteUrl |-> loc[i].record.remoteUrl, auth |-> loc[i].auth,
                             defaultBranch |-> PushBranch(input[i]),
                             commitMessage |-> CommitMessage(input[i])], answer))]
    /\ Advance(i, IF answer = "throws" THEN Failed("GitError", loc[i])
                  ELSE Finished(PushOutputs(loc[i].record, answer), loc[i]))
    /\ UNCHANGED <<input, mergeVars>>

(***************************************************************************)
(* bitbucketServer:pullRequest:open                                        *)
(***************************************************************************)
\* required-reviewer lists the default-reviewers endpoint answers in Spec
RequiredLists == { <<>>,
                   <<ServerReviewer("alice"), ServerReviewer("bob")>>,
                   <<ServerReviewer("alice"), ServerReviewer("alice")>> }

ReviewerAnswers == {Rejected} \cup {Answer(st, NoBody) : st \in {404, 500}}
                              \cup {Answer(204, <<>>)}
                              \cup {Answer(200, b) : b \in RequiredLists}

\* bodies of the answer to the pull-request POST: fromLinks says whether
\* r.fromRef.repository.links.clone can be iterated, links whether r.links.self
\* can be indexed
PrBodies ==
    { b \in [ fromLinks : BOOLEAN,
              clone     : {<<>>, <<[name |-> "http", href |-> "u1"]>>},
              links     : BOOLEAN,
              self      : {<<>>, <<[href |-> NoVal]>>, <<[href |-> "pr1"]>>} ] :
        /\ (~b.fromLinks => b.clone = <<>>)
        /\ (~b.links => b.self = <<>>) }

NoPrBody == [fromLinks |-> FALSE, clone |-> <<>>, links |-> FALSE, self |-> <<>>]

PrAnswers == {[rejected |-> TRUE, status |-> 0, body |-> NoPrBody]}
                \cup {Answer(st, NoPrBody) : st \in {200, 409, 500}}
                \cup {Answer(201, b) : b \in PrBodies}

\* `refs/heads/${branch}`
RefId(branch) == <<"refs/heads/", branch>>

\* sourceBranch and targetBranch are required inputs
SourceBranch(in) == "feature/update"

TargetBranch(in) == "main"

\* mutant: any 2xx answer of the default-reviewers GET is taken as a list
getRequiredReviewersAnyOk(resp) ==
    IF resp.rejected THEN ThrowWith("ReviewerLookupFailed", CauseMessage)
    ELSE IF ~Ok(resp) THEN ThrowWith("ReviewerLookupFailed", StatusMessage(resp))
    ELSE Return(resp.body)

\* getRequiredReviewers of bitbucketServerUtil
getRequiredReviewers(resp) ==
    IF resp.rejected THEN ThrowWith("ReviewerLookupFailed", CauseMessage)
    ELSE IF resp.status # 200 THEN ThrowWith("ReviewerLookupFailed", StatusMessage(resp))
    ELSE Return(resp.body)

\* mutant: the target ref is left to the default of getRequiredReviewers
ReviewersQueryDefaultTarget(in, repoInfo) ==
    [sourceRepoId |-> repoInfo.repoId, sourceRefId |-> RefId(SourceBranch(in)),
     targetRepoId |-> repoInfo.repoId, targetRefId |-> RefId("master")]

\* query of the default-reviewers GET
ReviewersQuery(in, repoInfo) ==
    [sourceRepoId |-> repoInfo.repoId, sourceRefId |-> RefId(SourceBranch(in)),
     targetRepoId |-> repoInfo.repoId, targetRefId |-> RefId(TargetBranch(in))]

\* mutant: the required reviewers are left out of the merge
ReviewersObjectRequestedOnly(in, requiredReviewers) == getReviewers(in.reviewers, <<>>)

\* reviewers = [] by default, and an array is truthy: getReviewers always runs
ReviewersObject(in, requiredReviewers) == getReviewers(in.reviewers, requiredReviewers)

\* body of the pull-request POST
PullRequestPayload(in, reviewersObject) ==
    [title |-> "title", description |-> "description", reviewers |-> reviewersObject,
     fromRef |-> [slug |-> in.repo, key |-> in.project, id |-> RefId(SourceBranch(in))],
     toRef   |-> [slug |-> in.repo, key |-> in.project, id |-> RefId(TargetBranch(in))]]

\* mutant: the self link is read with optional chaining, a missing one gives
\* an undefined prUrl instead of a throw
createPullRequestAnswerLenient(resp) ==
    IF resp.rejected THEN ThrowWith("PullRequestCreateFailed", CauseMessage)
    ELSE IF resp.status # 201 THEN ThrowWith("PullRequestCreateFailed", StatusMessage(resp))
    ELSE LET r == resp.body
         IN  IF ~r.fromLinks
             THEN ThrowWith("PullRequestResponseMalformed", BodyMessage(resp))
             ELSE Return([remoteUrl |-> ScanClone(r.clone, 1, ""),
                          prUrl |-> IF ~r.links \/ Len(r.self) = 0 THEN NoVal
                                    ELSE r.self[1].href])

\* createPullRequest once the POST has settled
createPullRequestAnswer(resp) ==
    IF resp.rejected THEN ThrowWith("PullRequestCreateFailed", CauseMessage)
    ELSE IF resp.status # 201 THEN ThrowWith("PullRequestCreateFailed", StatusMessage(resp))
    ELSE LET r == resp.body
         IN  IF ~r.fromLinks
             THEN ThrowWith("PullRequestResponseMalformed", BodyMessage(resp))
             ELSE IF ~r.links \/ Len(r.self) = 0
             THEN ThrowWith("PullRequestResponseMalformed", BodyMessage(resp))
             ELSE Return([remoteUrl |-> ScanClone(r.clone, 1, ""), prUrl |-> r.self[1].href])

\* ctx.output('remoteUrl', remoteUrl); ctx.output('prUrl', prUrl)
PullRequestOutputs(result) ==
    << <<"remoteUrl", result.remoteUrl>>, <<"prUrl", result.prUrl>> >>

\* createPullRequest: the reviewers GET, the merge and the payload
Reviewers(i, resp) ==
    /\ pc[i] = "reviewers"
    /\ calls' = [calls EXCEPT ![i] = Append(@,
                    Call("GET", "reviewers", input[i], loc[i].authorization, TRUE,
                         ReviewersQuery(input[i], loc[i].record), resp))]
    /\ LET res == getRequiredReviewers(resp)
       IN  Advance(i, IF res.thrown # NoVal THEN Rethrow(res, loc[i])
                      ELSE Goto("pullRequestPost",
                                [loc[i] EXCEPT !.reviewers = ReviewersObject(input[i], res.value)]))
    /\ UNCHANGED <<input, mergeVars>>

\* createPullRequest: the POST, the parse of its answer, and the handler's outputs
PullRequestPost(i, resp) ==
    /\ pc[i] = "pullRequestPost"
    /\ calls' = [calls EXCEPT ![i] = Append(@,
                    Call("POST", "pull-requests", input[i], loc[i].authorization, TRUE,
                         PullRequestPayload(input[i], loc[i].reviewers), resp))]
    /\ LET res == createPullRequestAnswer(resp)
       IN  Advance(i, IF res.thrown # NoVal THEN Rethrow(res, loc[i])
                      ELSE Finished(PullRequestOutputs(res.value), loc[i]))
    /\ UNCHANGED <<input, mergeVars>>

(***************************************************************************)
(* Spec: one invocation against collaborators that may answer anything     *)
(***************************************************************************)
MergeIdle ==
    /\ mRequired = <<>>
    /\ mUsers = <<>>
    /\ mResult = <<>>
    /\ mDone = FALSE

Init ==
    /\ input \in [{1} -> Inputs]
    /\ pc = [i \in {1} |-> "start"]
    /\ loc = [i \in {1} |-> NoLoc]
    /\ err = [i \in {1} |-> NoVal]
    /\ out = [i \in {1} |-> <<>>]
    /\ calls = [i \in {1} |-> <<>>]
    /\ server = {}
    /\ MergeIdle

AnyCreatePost(i) == \E resp \in CreateAnswers : CreatePost(i, resp) /\ UNCHANGED server

AnyReuseLookup(i) == \E resp \in LookupAnswers : ReuseLookup(i, resp) /\ UNCHANGED server

AnyEnableLFS(i) == \E resp \in LfsAnswers : EnableLFS(i, resp) /\ UNCHANGED server

AnyLookup(i) == \E resp \in LookupAnswers : Lookup(i, resp) /\ UNCHANGED server

AnyGitClone(i) == \E answer \in GitAnswers : GitClone(i, answer) /\ UNCHANGED server

AnyGitBranch(i) == \E answer \in GitAnswers : GitBranch(i, answer) /\ UNCHANGED server

AnyGitCheckout(i) == \E answer \in GitAnswers : GitCheckout(i, answer) /\ UNCHANGED server

AnyGitPush(i) == \E answer \in PushAnswers : GitPush(i, answer) /\ UNCHANGED server

AnyReviewers(i) == \E resp \in ReviewerAnswers : Reviewers(i, resp) /\ UNCHANGED server

AnyPullRequestPost(i) == \E resp \in PrAnswers : PullRequestPost(i, resp) /\ UNCHANGED server

Next ==
    \/ \E i \in Procs : Resolve(i)
    \/ \E i \in Procs : AnyCreatePost(i)
    \/ \E i \in Procs : AnyReuseLookup(i)
    \/ \E i \in Procs : AnyEnableLFS(i)
    \/ \E i \in Procs : AnyLookup(i)
    \/ \E i \in Procs : AnyGitClone(i)
    \/ \E i \in Procs : AnyGitBranch(i)
    \/ \E i \in Procs : AnyGitCheckout(i)
    \/ \E i \in Procs : AnyGitPush(i)
    \/ \E i \in Procs : AnyReviewers(i)
    \/ \E i \in Procs : AnyPullRequestPost(i)

Spec == Init /\ [][Next]_vars

\* every call that is awaited settles: it is answered or it fails
SpecFair == Init /\ [][Next]_vars /\ WF_vars(Next)

(***************************************************************************)
(* SpecMerge: getReviewers on every pair of bounded lists                  *)
(***************************************************************************)
NoProcs == {}

InitMerge ==
    /\ input = [i \in NoProcs |-> NoVal]
    /\ pc = [i \in NoProcs |-> NoVal]
    /\ loc = [i \in NoProcs |-> NoVal]
    /\ err = [i \in NoProcs |-> NoVal]
    /\ out = [i \in NoProcs |-> NoVal]
    /\ calls = [i \in NoProcs |-> NoVal]
    /\ server = {}
    /\ mRequired \in SeqsUpTo({ServerReviewer(n) : n \in Usernames}, MaxReviewers)
    /\ mUsers \in SeqsUpTo(Usernames, MaxReviewers)
    /\ mResult = <<>>
    /\ mDone = FALSE

\* reviewersObject = await getReviewers({ users: reviewers, requiredReviewers, logger })
Merge ==
    /\ ~mDone
    /\ mResult' = getReviewers(mUsers, mRequired)
    /\ mDone' = TRUE
    /\ UNCHANGED <<input, pc, loc, err, out, calls, server, mRequired, mUsers>>

NextMerge == Merge

SpecMerge == InitMerge /\ [][NextMerge]_vars

(***************************************************************************)
(* SpecRace: concurrent repo:create invocations, atomic truthful server    *)
(***************************************************************************)
RaceRepos == {"svc", "web"}

\* the repository detail the server keeps for a repository
ServerBody(repo) ==
    [id    |-> IF repo = "svc" THEN "42" ELSE "43",
     clone |-> <<[name |-> "ssh", href |-> "s1"],
                 [name |-> "http", href |-> IF repo = "svc" THEN "u1" ELSE "u2"]>>,
     self  |-> <<[href |-> "contents"]>>]

RaceInputs ==
    { in \in Inputs :
        /\ in.kind = "repoCreate"
        /\ in.project = "TEAM"
        /\ in.hasIntegration
        /\ in.token = "tokO"
        /\ in.config = [token |-> NoVal, username |-> NoVal, password |-> NoVal] }

Racers == 1..NumRacers

InitRace ==
    /\ input \in [Racers -> {[in EXCEPT !.repo = r] : in \in RaceInputs, r \in RaceRepos}]
    /\ pc = [i \in Racers |-> "start"]
    /\ loc = [i \in Racers |-> NoLoc]
    /\ err = [i \in Racers |-> NoVal]
    /\ out = [i \in Racers |-> <<>>]
    /\ calls = [i \in Racers |-> <<>>]
    /\ server = {}
    /\ MergeIdle

\* the server creates atomically: 201 for the first POST of a name, 409 afterwards
RaceCreatePost(i) ==
    LET repo == input[i].repo
    IN  IF repo \in server
        THEN CreatePost(i, Answer(409, NoBody)) /\ UNCHANGED server
        ELSE CreatePost(i, Answer(201, ServerBody(repo))) /\ server' = server \cup {repo}

RaceReuseLookup(i) ==
    LET repo == input[i].repo
    IN  /\ ReuseLookup(i, IF repo \in server THEN Answer(200, ServerBody(repo))
                          ELSE Answer(404, NoBody))
        /\ UNCHANGED server

RaceEnableLFS(i) ==
    LET repo == input[i].repo
    IN  /\ EnableLFS(i, IF repo \in server THEN Answer(204, NoBody) ELSE Answer(404, NoBody))
        /\ UNCHANGED server

NextRace ==
    \/ \E i \in Procs : Resolve(i)
    \/ \E i \in Procs : RaceCreatePost(i)
    \/ \E i \in Procs : RaceReuseLookup(i)
    \/ \E i \in Procs : RaceEnableLFS(i)

SpecRace == InitRace /\ [][NextRace]_vars

(***************************************************************************)
(* SpecPair: two invocations of any of the actions, run concurrently       *)
(***************************************************************************)
PairInputs ==
    { in \in Inputs :
        /\ in.project = "TEAM"
        /\ in.hasIntegration
        /\ in.token = "tokO"
        /\ in.config = [token |-> NoVal, username |-> NoVal, password |-> NoVal]
        /\ in.baseBranch = NoVal
        /\ in.branch = "main"
        /\ in.gitCommitMessage = NoVal }

InitPair ==
    /\ input \in [{1, 2} -> {[in EXCEPT !.repo = r] : in \in PairInputs, r \in RaceRepos}]
    /\ pc = [i \in {1, 2} |-> "start"]
    /\ loc = [i \in {1, 2} |-> NoLoc]
    /\ err = [i \in {1, 2} |-> NoVal]
    /\ out = [i \in {1, 2} |-> <<>>]
    /\ calls = [i \in {1, 2} |-> <<>>]
    /\ server = {}
    /\ MergeIdle

\* the lookup finds the repository or answers 404
PairLookup(i) ==
    /\ \E resp \in {Answer(404, NoBody), Answer(200, ServerBody(input[i].repo))} :
           Lookup(i, resp)
    /\ UNCHANGED server

\* the default-reviewers GET gives one required reviewer or answers 500
PairReviewers(i) ==
    /\ \E resp \in {Answer(500, NoBody), Answer(200, <<ServerReviewer("alice")>>)} :
           Reviewers(i, resp)
    /\ UNCHANGED server

\* the pull-request POST creates the pull request or answers 409
PairPullRequestPost(i) ==
    /\ \E resp \in {Answer(409, NoPrBody),
                    Answer(201, [fromLinks |-> TRUE,
                                 clone |-> <<[name |-> "http", href |-> "u1"]>>,
                                 links |-> TRUE, self |-> <<[href |-> "pr1"]>>])} :
           PullRequestPost(i, resp)
    /\ UNCHANGED server

NextPair ==
    \/ \E i \in Procs : Resolve(i)
    \/ \E i \in Procs : RaceCreatePost(i)
    \/ \E i \in Procs : RaceReuseLookup(i)
    \/ \E i \in Procs : RaceEnableLFS(i)
    \/ \E i \in Procs : PairLookup(i)
    \/ \E i \in Procs : AnyGitClone(i)
    \/ \E i \in Procs : AnyGitBranch(i)
    \/ \E i \in Procs : AnyGitCheckout(i)
    \/ \E i \in Procs : AnyGitPush(i)
    \/ \E i \in Procs : PairReviewers(i)
    \/ \E i \in Procs : PairPullRequestPost(i)

SpecPair == InitPair /\ [][NextPair]_vars

(***************************************************************************)
(* One invocation run alone: the handler replayed on a sequence of answers *)
(***************************************************************************)
\* an invocation that has not started
AloneStart == [pc |-> "start", err |-> NoVal, out |-> <<>>, loc |-> NoLoc, calls |-> <<>>]

\* the call the handler makes at s.pc, and where the answer resp takes it
AloneCall(in, s, resp) ==
    LET l == s.loc
        http(op, target, contentType, arg) ==
            Call(op, target, in, l.authorization, contentType, arg, resp)
        dir == [dir |-> ClonePath(in), ref |-> CheckoutBranch(in)]
    IN  CASE s.pc = "createPost" ->
               [call |-> http("POST", "repos", TRUE, CreatePayload(in)),
                next |-> IF Conflict(resp) THEN Goto("reuseLookup", l)
                         ELSE CreateHandlerTail(in, l, createRepositoryAnswer(resp))]
          [] s.pc = "reuseLookup" ->
               [call |-> http("GET", "repo", TRUE, NoVal),
                next |-> CreateHandlerTail(in, l, createRepositoryReuse(resp))]
          [] s.pc = "lfs" ->
               [call |-> http("PUT", "lfs", FALSE, NoVal),
                next |-> LfsTail(l, performEnableLFS(resp))]
          [] s.pc = "lookup" ->
               [call |-> http("GET", "repo", TRUE, NoVal),
                next |-> LookupTail(in, l, LookupOf(in.kind, resp))]
          [] s.pc = "gitClone" ->
               [call |-> GitCall("git.clone", in,
                                 [url |-> l.record.remoteUrl, dir |-> ClonePath(in),
                                  ref |-> BaseBranch(in)], resp),
                next |-> IF resp = "throws" THEN Failed("GitError", l)
                         ELSE Goto("gitBranch", l)]
          [] s.pc = "gitBranch" ->
               [call |-> GitCall("git.branch", in, dir, resp),
                next |-> IF resp = "throws" THEN Failed("GitError", l)
                         ELSE Goto("gitCheckout", l)]
          [] s.pc = "gitCheckout" ->
               [call |-> GitCall("git.checkout", in, dir, resp),
                next |-> IF resp = "throws" THEN Failed("GitError", l)
                         ELSE Finished(CloneOutputs(in, l.record), l)]
          [] s.pc = "gitPush" ->
               [call |-> GitCall("initRepoAndPush", in,
                                 [remoteUrl |-> l.record.remoteUrl, auth |-> l.auth,
                                  defaultBranch |-> PushBranch(in),
                                  commitMessage |-> CommitMessage(in)], resp),
                next |-> IF resp = "throws" THEN Failed("GitError", l)
                         ELSE Finished(PushOutputs(l.record, resp), l)]
          [] s.pc = "reviewers" ->
               [call |-> http("GET", "reviewers", TRUE, ReviewersQuery(in, l.record)),
                next |-> LET res == getRequiredReviewers(resp)
                         IN  IF res.thrown # NoVal THEN Rethrow(res, l)
                             ELSE Goto("pullRequestPost",
                                       [l EXCEPT !.reviewers = ReviewersObject(in, res.value)])]
          [] s.pc = "pullRequestPost" ->
               [call |-> http("POST", "pull-requests", TRUE,
                              PullRequestPayload(in, l.reviewers)),
                next |-> LET res == createPullRequestAnswer(resp)
                         IN  IF res.thrown # NoVal THEN Rethrow(res, l)
                             ELSE Finished(PullRequestOutputs(res.value), l)]

\* the invocation after the call made at s.pc was answered resp; an invocation
\* that has ended makes no call
AloneStep(in, s, resp) ==
    IF s.pc \in {"failed", "done"} THEN s
    ELSE LET c == AloneCall(in, s, resp)
         IN  [pc |-> c.next.pc, err |-> c.next.err, out |-> s.out \o c.next.out,
              loc |-> c.next.loc, calls |-> Append(s.calls, c.call)]

\* the invocation after its calls were answered answers[k..], from s on
RECURSIVE AloneFrom(_, _, _, _)
AloneFrom(in, answers, k, s) ==
    IF k > Len(answers) THEN s
    ELSE AloneFrom(in, answers, k + 1, AloneStep(in, s, answers[k]))

\* the invocation run alone on input in, once started, its calls answered answers
AloneRun(in, answers) ==
    LET head == HandlerHead(in)
    IN  AloneFrom(in, answers, 1,
                  [pc |-> head.pc, err |-> head.err, out |-> head.out,
                   loc |-> head.loc, calls |-> <<>>])

(***************************************************************************)
(* Properties                                                              *)
(***************************************************************************)
Names(requiredReviewers) == {requiredReviewers[k].name : k \in 1..Len(requiredReviewers)}

\* the requested usernames that are not names of required reviewers, in caller order
Fresh(users, requiredReviewers) ==
    LET Keep(u) == u \notin Names(requiredReviewers)
    IN  SelectSeq(users, Keep)

\* C1: getReviewers returns every required reviewer in server order, followed
\* by the requested usernames in caller order without those that are names of
\* required reviewers.
C1_RequiredFirstThenRequested ==
    mDone =>
        /\ Len(mResult) = Len(mRequired) + Len(Fresh(mUsers, mRequired))
        /\ \A k \in 1..Len(mRequired) : mResult[k].user.name = mRequired[k].name
        /\ \A k \in 1..Len(Fresh(mUsers, mRequired)) :
              mResult[Len(mRequired) + k].user.name = Fresh(mUsers, mRequired)[k]

\* C1 witness: required [alice, bob] and requested [bob, carol] give
\* [alice, bob, carol].
C1_Witness ==
    /\ mDone
    /\ mRequired = <<ServerReviewer("alice"), ServerReviewer("bob")>>
    /\ mUsers = <<"bob", "carol">>
    /\ mResult = <<User("alice"), User("bob"), User("carol")>>

NoRepeat(reviewers) ==
    \A j, k \in 1..Len(reviewers) :
        j # k => reviewers[j].user.name # reviewers[k].user.name

\* C2: the reviewers field of every pull-request payload sent holds no two
\* entries with the same username.
C2_PayloadReviewersDistinct ==
    \A i \in Procs : \A k \in 1..Len(calls[i]) :
        calls[i][k].target = "pull-requests" => NoRepeat(calls[i][k].arg.reviewers)

\* C3: when the create POST answers 409, createRepository looks the same
\* project/repo up and settles exactly as that lookup does: it fails with the
\* lookup's error, or it returns the lookup's record, which the handler
\* outputs; without LFS the invocation is then done.
C3_ConflictReusesLookup ==
    \A i \in Procs :
        (/\ input[i].kind = "repoCreate"
         /\ Len(calls[i]) >= 1
         /\ Conflict(calls[i][1].resp))
        => \/ pc[i] = "reuseLookup" /\ Len(calls[i]) = 1
           \/ /\ Len(calls[i]) >= 2
              /\ calls[i][2].op = "GET"
              /\ calls[i][2].target = "repo"
              /\ calls[i][2].project = calls[i][1].project
              /\ calls[i][2].repo = calls[i][1].repo
              /\ LET direct == getRepoInfo(calls[i][2].resp)
                 IN  IF direct.thrown # NoVal
                     THEN pc[i] = "failed" /\ err[i] = direct.thrown
                     ELSE /\ loc[i].record = direct.value
                          /\ (~input[i].enableLFS => pc[i] = "done")
                          /\ (pc[i] = "done" =>
                                out[i] = << <<"remoteUrl", direct.value.remoteUrl>>,
                                            <<"repoContentsUrl", direct.value.repoContentsUrl>>,
                                            <<"repoId", direct.value.repoId>> >>)

\* C3 witness: POST 409, lookup 200 with id 42 and the http link u1, and the
\* invocation done with that record as its outputs.
C3_Witness ==
    \E i \in Procs :
        /\ input[i].kind = "repoCreate"
        /\ Len(calls[i]) = 2
        /\ calls[i][1].resp.status = 409
        /\ calls[i][2].resp.status = 200
        /\ pc[i] = "done"
        /\ out[i] = << <<"remoteUrl", "u1">>, <<"repoContentsUrl", "contents">>,
                       <<"repoId", "42">> >>

Posts(i) == {k \in 1..Len(calls[i]) : calls[i][k].op = "POST"}

\* C4: concurrent creates of one name against the atomic server: none of them
\* fails, each sends one POST at most, one POST alone is answered 201, and
\* those that are done have output the same record.
C4_RaceEndsInSameRecord ==
    \A i, j \in Procs :
        (i # j /\ input[i].repo = input[j].repo)
        => /\ pc[i] # "failed"
           /\ Cardinality(Posts(i)) <= 1
           /\ ~(/\ Len(calls[i]) >= 1 /\ calls[i][1].resp.status = 201
                /\ Len(calls[j]) >= 1 /\ calls[j][1].resp.status = 201)
           /\ (pc[i] = "done" /\ pc[j] = "done" =>
                 /\ out[i] = out[j]
                 /\ Len(out[i]) = 3
                 /\ \E w \in Procs : /\ input[w].repo = input[i].repo
                                      /\ Len(calls[w]) >= 1
                                      /\ calls[w][1].resp.status = 201
                 /\ input[i].repo \in server)

\* C4 witness: two racers on one name are done, one created, the other reused.
C4_Witness ==
    \E i, j \in Procs :
        /\ i # j
        /\ input[i].repo = input[j].repo
        /\ pc[i] = "done" /\ pc[j] = "done"
        /\ calls[i][1].resp.status = 201
        /\ calls[j][1].resp.status = 409
        /\ out[i] = out[j]

\* C5: a location without project makes the invocation fail with
\* InvalidLocation, with no outbound call and no output.
C5_MissingProjectFailsBeforeCalls ==
    \A i \in Procs :
        (input[i].project = "" /\ pc[i] # "start")
        => /\ pc[i] = "failed"
           /\ err[i] = "InvalidLocation"
           /\ calls[i] = <<>>
           /\ out[i] = <<>>

\* C5 witness: an invocation without project has failed.
C5_Witness ==
    \E i \in Procs : input[i].project = "" /\ pc[i] = "failed" /\ err[i] = "InvalidLocation"

\* neither a token nor a username/password pair is resolvable
NoCredentials(in) ==
    /\ ~Truthy(in.token)
    /\ ~Truthy(in.config.token)
    /\ ~(Truthy(in.config.username) /\ Truthy(in.config.password))

HttpCalls(i) == {k \in 1..Len(calls[i]) : calls[i][k].target # "git"}

\* C6: with project and integration configuration present and no credential
\* resolvable the invocation fails with MissingCredentials before any call;
\* and no HTTP request is ever sent with an empty or absent Authorization.
C6_NoCallWithoutAuthorization ==
    \A i \in Procs :
        /\ (/\ NoCredentials(input[i])
            /\ input[i].project # ""
            /\ input[i].hasIntegration
            /\ pc[i] # "start")
           => (pc[i] = "failed" /\ err[i] = "MissingCredentials" /\ calls[i] = <<>>)
        /\ (NoCredentials(input[i]) => calls[i] = <<>>)
        /\ \A k \in HttpCalls(i) :
              /\ calls[i][k].authorization.scheme \in {"Bearer", "Basic"}
              /\ Truthy(calls[i][k].authorization.cred)

\* C6 witness: an invocation without any credential has failed with
\* MissingCredentials.
C6_Witness ==
    \E i \in Procs :
        NoCredentials(input[i]) /\ pc[i] = "failed" /\ err[i] = "MissingCredentials"

\* the handlers that build a git credential
GitKinds == {"repoClone", "publishPush", "branchPush"}

\* the token the resolution rule selects: the override first, then the configured one
AvailableToken(in) ==
    IF Truthy(in.token) THEN in.token
    ELSE IF Truthy(in.config.token) THEN in.config.token
    ELSE NoVal

\* C7: once a handler has built its git credential, the credential is the token
\* variant whenever a token is available (the override before the configured
\* token), and the username/password variant only when no token is available.
C7_TokenVariantWhenTokenAvailable ==
    \A i \in Procs :
        (input[i].kind \in GitKinds /\ loc[i].authorization # NoAuthorization)
        => IF AvailableToken(input[i]) # NoVal
           THEN loc[i].auth = [token |-> AvailableToken(input[i]),
                               username |-> NoVal, password |-> NoVal]
           ELSE loc[i].auth = [token |-> NoVal, username |-> input[i].config.username,
                               password |-> input[i].config.password]

\* C8: an invocation that has thrown has emitted no output.
C8_NoOutputOnFailure ==
    \A i \in Procs :
        /\ ((pc[i] = "failed" \/ err[i] # NoVal) => out[i] = <<>>)
        /\ (out[i] # <<>> => pc[i] = "done")

\* C8 witness: a repo:create whose repository was created and whose LFS PUT
\* failed has thrown after two successful steps.
C8_Witness ==
    \E i \in Procs :
        /\ pc[i] = "failed"
        /\ Len(calls[i]) = 3
        /\ calls[i][2].resp.status = 200
        /\ err[i] = "LfsEnableFailed"
        /\ out[i] = <<>>

\* C9: once an invocation has thrown it stays failed, keeps its error and makes
\* no further outbound call (so no compensating delete or undo either).
C9_FailedIsTerminal ==
    [][\A i \in Procs :
          (pc[i] = "failed" \/ err[i] # NoVal)
          => /\ pc'[i] = "failed"
             /\ err'[i] = err[i]
             /\ calls'[i] = calls[i]
             /\ out'[i] = out[i]]_vars

\* C9 witness: the create POST answered 201, the LFS PUT failed, the invocation
\* is failed and its last call is the PUT.
C9_Witness ==
    \E i \in Procs :
        /\ pc[i] = "failed"
        /\ Len(calls[i]) = 2
        /\ calls[i][1].op = "POST"
        /\ calls[i][1].resp.status = 201
        /\ calls[i][2].op = "PUT"

\* the repository exists when call k of invocation i is made: the POST just
\* before answered 201 with a readable body, or it answered 409 and the
\* lookup just before succeeded
EnsuredBefore(i, k) ==
    \/ /\ k = 2
       /\ calls[i][1].op = "POST"
       /\ calls[i][1].resp.status = 201
       /\ Len(calls[i][1].resp.body.self) > 0
    \/ /\ k = 3
       /\ calls[i][1].op = "POST"
       /\ calls[i][1].resp.status = 409
       /\ calls[i][2].op = "GET"
       /\ calls[i][2].resp.status = 200
       /\ Len(calls[i][2].resp.body.self) > 0

\* C10: the LFS PUT is sent only with enableLFS true and only after create
\* (201) or reuse (409, lookup 200) has succeeded; a PUT answered with a
\* status outside 200-299 makes the invocation fail with LfsEnableFailed and
\* without outputs.
C10_LfsGatedAndFatal ==
    \A i \in Procs : \A k \in 1..Len(calls[i]) :
        calls[i][k].target = "lfs"
        => /\ input[i].enableLFS
           /\ input[i].kind = "repoCreate"
           /\ calls[i][k].op = "PUT"
           /\ EnsuredBefore(i, k)
           /\ k = Len(calls[i])
           /\ ((/\ ~calls[i][k].resp.rejected
                /\ calls[i][k].resp.status \notin 200..299)
               => (pc[i] = "failed" /\ err[i] = "LfsEnableFailed" /\ out[i] = <<>>))

\* C10 witness: create 409, lookup 200 with id 42, PUT 500, failed with
\* LfsEnableFailed.
C10_Witness ==
    \E i \in Procs :
        /\ Len(calls[i]) = 3
        /\ calls[i][1].resp.status = 409
        /\ calls[i][2].resp.status = 200
        /\ calls[i][2].resp.body.id = "42"
        /\ calls[i][3].target = "lfs"
        /\ calls[i][3].resp.status = 500
        /\ pc[i] = "failed"
        /\ err[i] = "LfsEnableFailed"

\* the GETs of a repository detail invocation i has made
RepoLookups(i) ==
    {k \in 1..Len(calls[i]) : calls[i][k].op = "GET" /\ calls[i][k].target = "repo"}

\* C11: a repository lookup that is rejected or answered with a status other
\* than 200 ends the invocation with RepositoryLookupFailed, in whichever
\* handler it is made: no record is kept, nothing is output, no call follows,
\* and the error holds the status and the body of the answer (the cause when
\* the fetch was rejected).
C11_LookupFailsUnless200 ==
    \A i \in Procs : \A k \in RepoLookups(i) :
        (calls[i][k].resp.rejected \/ calls[i][k].resp.status # 200)
        => /\ pc[i] = "failed"
           /\ err[i] = "RepositoryLookupFailed"
           /\ k = Len(calls[i])
           /\ loc[i].record = NoRecord
           /\ out[i] = <<>>
           /\ IF calls[i][k].resp.rejected
              THEN loc[i].message.cause = "FetchError"
              ELSE /\ loc[i].message.status = calls[i][k].resp.status
                   /\ loc[i].message.body = calls[i][k].resp.body

\* C11 witness: the lookup of a publish push is answered 404 with an error
\* text, and the invocation has failed with that status and text.
C11_Witness ==
    \E i \in Procs :
        /\ input[i].kind = "publishPush"
        /\ Len(calls[i]) = 1
        /\ calls[i][1].resp = Answer(404, ErrorBody)
        /\ pc[i] = "failed"
        /\ err[i] = "RepositoryLookupFailed"
        /\ loc[i].message.status = 404
        /\ loc[i].message.body = ErrorBody

\* the href of the last link named http, the empty string when there is none
LastHttp(clone) ==
    LET named == {k \in 1..Len(clone) : clone[k].name = "http"}
    IN  IF named = {} THEN ""
        ELSE clone[CHOOSE k \in named : \A j \in named : j <= k].href

\* C12: a create POST that is rejected or answered with a status other than
\* 201 and 409 ends the invocation with RepositoryCreateFailed after that one
\* call (no lookup, no LFS PUT); a POST answered 201 is followed by no lookup,
\* and the record kept is the one read from the body of the POST's answer.
C12_CreateStatusHandling ==
    \A i \in Procs :
        (input[i].kind = "repoCreate" /\ Len(calls[i]) >= 1)
        => LET r == calls[i][1].resp
           IN  /\ calls[i][1].op = "POST"
               /\ (r.rejected \/ r.status \notin {201, 409})
                  => /\ pc[i] = "failed"
                     /\ err[i] = "RepositoryCreateFailed"
                     /\ Len(calls[i]) = 1
                     /\ out[i] = <<>>
               /\ (~r.rejected /\ r.status = 201)
                  => /\ RepoLookups(i) = {}
                     /\ (Len(r.body.self) > 0
                         => loc[i].record = [remoteUrl       |-> LastHttp(r.body.clone),
                                             repoContentsUrl |-> r.body.self[1].href,
                                             repoId          |-> r.body.id])

\* C12 witness: the create POST is answered 200, and the invocation has failed
\* with RepositoryCreateFailed after that single call.
C12_Witness ==
    \E i \in Procs :
        /\ input[i].kind = "repoCreate"
        /\ input[i].enableLFS
        /\ Len(calls[i]) = 1
        /\ calls[i][1].resp.status = 200
        /\ ~calls[i][1].resp.rejected
        /\ pc[i] = "failed"
        /\ err[i] = "RepositoryCreateFailed"

\* C13: a pull-request open makes its calls in the order lookup GET,
\* required-reviewers GET, pull-request POST, each once at most; the POST is
\* sent only after both GETs were answered 200, and its reviewers field holds
\* every required reviewer the server returned, in server order, followed by
\* the requested users that are not among them.
C13_PullRequestCallOrder ==
    \A i \in Procs :
        input[i].kind = "pullRequestOpen"
        => /\ Len(calls[i]) <= 3
           /\ \A k \in 1..Len(calls[i]) :
                 /\ calls[i][k].op = <<"GET", "GET", "POST">>[k]
                 /\ calls[i][k].target = <<"repo", "reviewers", "pull-requests">>[k]
                 /\ \A j \in 1..(k - 1) :
                       ~calls[i][j].resp.rejected /\ calls[i][j].resp.status = 200
           /\ Len(calls[i]) = 3
              => LET required == calls[i][2].resp.body
                     sent == calls[i][3].arg.reviewers
                     fresh == Fresh(input[i].reviewers, required)
                 IN  /\ Len(sent) = Len(required) + Len(fresh)
                     /\ \A k \in 1..Len(required) : sent[k].user.name = required[k].name
                     /\ \A k \in 1..Len(fresh) : sent[Len(required) + k].user.name = fresh[k]

\* C13 witness: with no requested reviewer and the server requiring alice and
\* bob, the POST has been sent with alice and bob as reviewers.
C13_Witness ==
    \E i \in Procs :
        /\ input[i].kind = "pullRequestOpen"
        /\ input[i].reviewers = <<>>
        /\ Len(calls[i]) = 3
        /\ calls[i][2].resp.body = <<ServerReviewer("alice"), ServerReviewer("bob")>>
        /\ calls[i][3].arg.reviewers = <<User("alice"), User("bob")>>

\* the pull-request POSTs invocation i has made
PullRequestPosts(i) ==
    {k \in 1..Len(calls[i]) : calls[i][k].target = "pull-requests"}

\* C14: a pull-request POST answered 201 with a body in which links.self is
\* absent or empty ends the invocation with PullRequestResponseMalformed; the
\* error holds the body of the answer, and nothing is returned or output.
C14_MissingSelfLinkIsMalformed ==
    \A i \in Procs : \A k \in PullRequestPosts(i) :
        LET r == calls[i][k].resp
        IN  (~r.rejected /\ r.status = 201 /\ (~r.body.links \/ r.body.self = <<>>))
            => /\ pc[i] = "failed"
               /\ err[i] = "PullRequestResponseMalformed"
               /\ loc[i].message.body = r.body
               /\ out[i] = <<>>

\* C14 witness: the POST is answered 201 with a clone link and an empty self
\* list, and the invocation has failed with PullRequestResponseMalformed.
C14_Witness ==
    \E i \in Procs :
        /\ input[i].kind = "pullRequestOpen"
        /\ Len(calls[i]) = 3
        /\ calls[i][3].resp.status = 201
        /\ calls[i][3].resp.body.fromLinks
        /\ calls[i][3].resp.body.links
        /\ calls[i][3].resp.body.self = <<>>
        /\ pc[i] = "failed"
        /\ err[i] = "PullRequestResponseMalformed"

\* C15: every pull-request open that ends successfully has output a non-empty
\* remoteUrl and a non-empty prUrl.
C15_ResultLinksNonEmpty ==
    \A i \in Procs :
        (input[i].kind = "pullRequestOpen" /\ pc[i] = "done")
        => /\ Len(out[i]) = 2
           /\ out[i][1][1] = "remoteUrl" /\ Truthy(out[i][1][2])
           /\ out[i][2][1] = "prUrl" /\ Truthy(out[i][2][2])

\* C16: every HTTP request of every action carries an Authorization header
\* and the header Content-Type: application/json.
C16_EveryRequestHasBothHeaders ==
    \A i \in Procs : \A k \in HttpCalls(i) :
        /\ calls[i][k].authorization # NoAuthorization
        /\ calls[i][k].contentType

\* the default-reviewers GETs invocation i has made
ReviewerLookups(i) ==
    {k \in 1..Len(calls[i]) : calls[i][k].target = "reviewers"}

\* C17: a default-reviewers GET answered with a status other than 200 ends the
\* invocation with ReviewerLookupFailed and no pull-request POST is made; a
\* pull-request POST answered with a status other than 201 ends it with
\* PullRequestCreateFailed; in both cases nothing is output.
C17_ReviewerAndPostStatusHandling ==
    \A i \in Procs :
        /\ \A k \in ReviewerLookups(i) :
              (~calls[i][k].resp.rejected /\ calls[i][k].resp.status # 200)
              => /\ pc[i] = "failed"
                 /\ err[i] = "ReviewerLookupFailed"
                 /\ PullRequestPosts(i) = {}
                 /\ k = Len(calls[i])
                 /\ out[i] = <<>>
        /\ \A k \in PullRequestPosts(i) :
              (~calls[i][k].resp.rejected /\ calls[i][k].resp.status # 201)
              => /\ pc[i] = "failed"
                 /\ err[i] = "PullRequestCreateFailed"
                 /\ k = Len(calls[i])
                 /\ out[i] = <<>>

\* C17 witness: the default-reviewers GET was answered 204 and the invocation
\* has failed with ReviewerLookupFailed without a pull-request POST.
C17_Witness ==
    \E i \in Procs :
        /\ input[i].kind = "pullRequestOpen"
        /\ Len(calls[i]) = 2
        /\ calls[i][2].target = "reviewers"
        /\ calls[i][2].resp.status = 204
        /\ pc[i] = "failed"
        /\ err[i] = "ReviewerLookupFailed"

\* the git operations invocation i has invoked
GitOps(i) == {k \in 1..Len(calls[i]) : calls[i][k].target = "git"}

\* C18: in the clone and push flows each git operation is invoked at most once
\* per invocation; one that fails ends the invocation with the error of git
\* itself, is the last call of the invocation, and nothing is output.
C18_GitFailureIsFatal ==
    \A i \in Procs :
        /\ \A k \in GitOps(i) : \A m \in GitOps(i) :
              calls[i][k].op = calls[i][m].op => k = m
        /\ \A k \in GitOps(i) :
              calls[i][k].resp = "throws"
              => /\ pc[i] = "failed"
                 /\ err[i] = "GitError"
                 /\ loc[i].message = NoMessage
                 /\ k = Len(calls[i])
                 /\ out[i] = <<>>

\* C18 witness: the clone succeeded, git.branch failed, and the invocation has
\* ended with the error of git without a git.checkout.
C18_Witness ==
    \E i \in Procs :
        /\ input[i].kind = "repoClone"
        /\ Len(calls[i]) = 3
        /\ calls[i][2].op = "git.clone" /\ calls[i][2].resp = "ok"
        /\ calls[i][3].op = "git.branch" /\ calls[i][3].resp = "throws"
        /\ pc[i] = "failed"
        /\ err[i] = "GitError"

PushKinds == {"publishPush", "branchPush"}

\* the calls of initRepoAndPush invocation i has made
Pushes(i) == {k \in 1..Len(calls[i]) : calls[i][k].op = "initRepoAndPush"}

CloneFlowOps == <<"GET", "git.clone", "git.branch", "git.checkout">>

\* C20: in the clone-then-branch flow the calls are, in this order, the lookup
\* GET, git.clone (looked-up remoteUrl, target directory, base branch),
\* git.branch and git.checkout (checkout branch), and outputs come only after
\* all four; the base branch is "master" and the directory the workspace root
\* when not supplied; a failed lookup is followed by no git call.
C20_CloneFlowOrder ==
    \A i \in Procs :
        input[i].kind = "repoClone"
        => LET in  == input[i]
               dir == IF in.clonePath = NoVal THEN "workspacePath" ELSE in.clonePath
               ref == IF in.baseBranch = NoVal THEN "master" ELSE in.baseBranch
           IN  /\ Len(calls[i]) <= Len(CloneFlowOps)
               /\ \A k \in 1..Len(calls[i]) : calls[i][k].op = CloneFlowOps[k]
               /\ Len(calls[i]) >= 2
                  => /\ calls[i][1].target = "repo"
                     /\ ~calls[i][1].resp.rejected
                     /\ calls[i][1].resp.status = 200
                     /\ calls[i][2].arg =
                            [url |-> LastHttp(calls[i][1].resp.body.clone),
                             dir |-> dir, ref |-> ref]
               /\ Len(calls[i]) >= 3
                  => calls[i][3].arg = [dir |-> dir, ref |-> "feature/update"]
               /\ Len(calls[i]) >= 4
                  => calls[i][4].arg = [dir |-> dir, ref |-> "feature/update"]
               /\ \A k \in 2..Len(calls[i]) : \A j \in 2..(k - 1) :
                     calls[i][j].resp = "ok"
               /\ out[i] # <<>>
                  => /\ Len(calls[i]) = 4
                     /\ calls[i][4].resp = "ok"
                     /\ pc[i] = "done"
                     /\ out[i][1] = <<"remoteUrl", calls[i][2].arg.url>>
                     /\ out[i][3] = <<"clonePath", dir>>
               /\ (pc[i] = "failed" /\ err[i] = "RepositoryLookupFailed")
                  => GitOps(i) = {}

\* C20 witness: a clone with neither base branch nor clone path supplied has
\* run all four calls and output its results.
C20_Witness ==
    \E i \in Procs :
        /\ input[i].kind = "repoClone"
        /\ input[i].baseBranch = NoVal
        /\ input[i].clonePath = NoVal
        /\ Len(calls[i]) = 4
        /\ calls[i][2].arg.ref = "master"
        /\ calls[i][2].arg.dir = "workspacePath"
        /\ calls[i][2].arg.url = "u2"
        /\ pc[i] = "done"
        /\ Len(out[i]) = 3

\* the answers invocation i has received, in order
Answers(i) == [k \in 1..Len(calls[i]) |-> calls[i][k].resp]

\* no other invocation targets the repository of i, nor clones into its directory
Independent(i) ==
    \A j \in Procs \ {i} :
        /\ input[j].repo # input[i].repo
        /\ (input[i].kind = "repoClone" /\ input[j].kind = "repoClone")
           => ClonePath(input[j]) # ClonePath(input[i])

\* what the server answers the k-th call of a create that runs alone
AloneCreateAnswer(repo, k) ==
    IF k = 1 THEN Answer(201, ServerBody(repo)) ELSE Answer(204, NoBody)

\* C21: an invocation whose repository and directory no concurrent invocation
\* targets makes the calls and has the result of the same invocation run
\* alone on the answers it received, and a create is answered as it is alone.
C21_IndependentRunsAsAlone ==
    \A i \in Procs :
        Independent(i)
        => LET alone == IF pc[i] = "start" THEN AloneStart
                        ELSE AloneRun(input[i], Answers(i))
           IN  /\ calls[i] = alone.calls
               /\ pc[i] = alone.pc
               /\ err[i] = alone.err
               /\ out[i] = alone.out
               /\ loc[i] = alone.loc
               /\ input[i].kind = "repoCreate"
                  => \A k \in 1..Len(calls[i]) :
                        calls[i][k].resp = AloneCreateAnswer(input[i].repo, k)

\* C21 witness: a branch push to one repository and a create (with LFS) of
\* another have both run to their ends and output their own remoteUrl.
C21_Witness ==
    \E i, j \in Procs :
        /\ input[i].kind = "branchPush" /\ input[j].kind = "repoCreate"
        /\ input[i].repo # input[j].repo
        /\ input[j].enableLFS
        /\ pc[i] = "done" /\ pc[j] = "done"
        /\ Len(calls[i]) = 2 /\ Len(calls[j]) = 2
        /\ out[i][2] = <<"remoteUrl", ServerBody(input[i].repo).clone[2].href>>
        /\ out[j][1] = <<"remoteUrl", ServerBody(input[j].repo).clone[2].href>>

\* the call of invocation i whose answer holds the repository detail: the
\* lookup, or for a create the POST answered 201 or the lookup after a 409;
\* 0 when there is none
DetailCall(i) ==
    IF calls[i] = <<>> THEN 0
    ELSE IF input[i].kind \in {"branchPush", "pullRequestOpen"}
         THEN (IF ~calls[i][1].resp.rejected /\ calls[i][1].resp.status = 200 THEN 1 ELSE 0)
    ELSE IF input[i].kind # "repoCreate" THEN 0
    ELSE IF ~calls[i][1].resp.rejected /\ calls[i][1].resp.status = 201 THEN 1
    ELSE IF /\ Len(calls[i]) >= 2 /\ calls[i][2].target = "repo"
            /\ ~calls[i][2].resp.rejected /\ calls[i][2].resp.status = 200 THEN 2
    ELSE 0

\* C22: from a repository detail with a self link, the lookup of
\* bitbucketServerUtil and the create answered 201 keep the record whose
\* remoteUrl is the href of the clone link named http, or the empty string
\* when no link has that name (the step does not fail), whose repoContentsUrl
\* is the href of the first self link and whose repoId is the id of the body.
C22_RecordExtraction ==
    \A i \in Procs :
        LET k == DetailCall(i)
        IN  (k # 0 /\ calls[i][k].resp.body.self # <<>>)
            => LET r == calls[i][k].resp.body
               IN  /\ loc[i].record = [remoteUrl |-> LastHttp(r.clone),
                                       repoContentsUrl |-> r.self[1].href,
                                       repoId |-> r.id]
                   /\ (\A n \in 1..Len(r.clone) : r.clone[n].name # "http")
                      => loc[i].record.remoteUrl = ""
                   /\ Len(calls[i]) = k => pc[i] # "failed"
                   /\ (pc[i] = "done" /\ input[i].kind = "repoCreate")
                      => out[i] = << <<"remoteUrl", LastHttp(r.clone)>>,
                                     <<"repoContentsUrl", r.self[1].href>>,
                                     <<"repoId", r.id>> >>

\* C22 witness: a create answered 201 with an ssh clone link alone is done
\* and has output the empty remoteUrl, the self href and the id.
C22_Witness ==
    \E i \in Procs :
        /\ input[i].kind = "repoCreate"
        /\ Len(calls[i]) = 1
        /\ calls[i][1].resp.status = 201
        /\ calls[i][1].resp.body.clone = <<[name |-> "ssh", href |-> "s1"]>>
        /\ pc[i] = "done"
        /\ out[i] = << <<"remoteUrl", "">>, <<"repoContentsUrl", "contents">>,
                       <<"repoId", "42">> >>

\* C23: the default-reviewers GET is sent with the id of the looked-up
\* repository as sourceRepoId and as targetRepoId and with the refs
\* refs/heads/<sourceBranch> and refs/heads/<targetBranch>; the pull-request
\* POST has the same two refs as fromRef.id and toRef.id, both with the slug
\* and the project key of the invocation.
C23_RefsAndRepositoryIdentity ==
    \A i \in Procs :
        /\ \A k \in ReviewerLookups(i) :
              /\ k = 2
              /\ calls[i][1].target = "repo"
              /\ calls[i][k].arg =
                     [sourceRepoId |-> calls[i][1].resp.body.id,
                      sourceRefId  |-> <<"refs/heads/", "feature/update">>,
                      targetRepoId |-> calls[i][1].resp.body.id,
                      targetRefId  |-> <<"refs/heads/", "main">>]
        /\ \A k \in PullRequestPosts(i) :
              /\ k = 3
              /\ calls[i][2].target = "reviewers"
              /\ calls[i][k].arg.fromRef =
                     [slug |-> input[i].repo, key |-> input[i].project,
                      id |-> calls[i][2].arg.sourceRefId]
              /\ calls[i][k].arg.toRef =
                     [slug |-> input[i].repo, key |-> input[i].project,
                      id |-> calls[i][2].arg.targetRefId]
              /\ calls[i][k].project = input[i].project
              /\ calls[i][k].repo = input[i].repo

\* C23 witness: a pull-request POST was sent after a lookup that gave id 42
\* and a default-reviewers GET for that id.
C23_Witness ==
    \E i \in Procs :
        /\ input[i].kind = "pullRequestOpen"
        /\ Len(calls[i]) = 3
        /\ calls[i][1].resp.body.id = "42"
        /\ calls[i][2].arg.sourceRepoId = "42"
        /\ calls[i][2].arg.targetRepoId = "42"
        /\ calls[i][3].target = "pull-requests"
        /\ calls[i][3].arg.toRef.id = <<"refs/heads/", "main">>

\* the calls of an invocation stay within the bound of its action and none is
\* made twice
CallBounds ==
    \A i \in Procs :
        LET http == Cardinality(HttpCalls(i))
            git  == Cardinality(GitOps(i))
            kind == input[i].kind
        IN  /\ kind \in {"repoCreate", "pullRequestOpen"} => (http <= 3 /\ git = 0)
            /\ kind \in {"publishPush", "branchPush"} => (http <= 1 /\ git <= 1)
            /\ kind = "repoClone" => (http <= 1 /\ git <= 3)
            /\ \A k, m \in 1..Len(calls[i]) :
                  (calls[i][k].op = calls[i][m].op /\ calls[i][k].target = calls[i][m].target)
                  => k = m

Ended == \A i \in Procs : pc[i] \in {"done", "failed"}

\* C24: with every awaited call settling, an invocation makes at most 3 HTTP
\* calls (create, pull-request open), 1 HTTP call and 1 git call (the two
\* pushes) or 1 HTTP call and 3 git calls (clone), makes no call twice, and
\* ends done or failed for good.
C24_BoundedCallsAndTermination == []CallBounds /\ <>[]Ended

\* C24 witness: a create has ended after its three HTTP calls, POST, lookup
\* and LFS PUT.
C24_Witness ==
    \E i \in Procs :
        /\ input[i].kind = "repoCreate"
        /\ Len(calls[i]) = 3
        /\ calls[i][1].op = "POST" /\ calls[i][2].op = "GET" /\ calls[i][3].op = "PUT"
        /\ pc[i] \in {"done", "failed"}

\* C25: a create whose POST is answered 409 and whose lookup is then rejected
\* or answered with a status other than 200 ends failed with
\* RepositoryLookupFailed after those two calls, with no LFS PUT and no
\* output; a create answered 409 is done only after a lookup answered 200.
C25_ConflictThenFailedLookup ==
    \A i \in Procs :
        (/\ input[i].kind = "repoCreate"
         /\ Len(calls[i]) >= 2
         /\ calls[i][1].resp.status = 409)
        => LET lookup == calls[i][2]
           IN  /\ lookup.op = "GET" /\ lookup.target = "repo"
               /\ (lookup.resp.rejected \/ lookup.resp.status # 200)
                  => /\ pc[i] = "failed"
                     /\ err[i] = "RepositoryLookupFailed"
                     /\ Len(calls[i]) = 2
                     /\ out[i] = <<>>
               /\ (pc[i] = "done" \/ Len(calls[i]) = 3)
                  => (~lookup.resp.rejected /\ lookup.resp.status = 200)

\* C25 witness: a create with enableLFS was answered 409, its lookup 404, and
\* it has failed with RepositoryLookupFailed.
C25_Witness ==
    \E i \in Procs :
        /\ input[i].kind = "repoCreate"
        /\ input[i].enableLFS
        /\ Len(calls[i]) = 2
        /\ calls[i][1].resp.status = 409
        /\ calls[i][2].resp.status = 404
        /\ pc[i] = "failed"
        /\ err[i] = "RepositoryLookupFailed"

\* C26: git.clone and the commit+push are never invoked with an empty remote
\* URL.
C26_GitNeverGetsEmptyRemoteUrl ==
    \A i \in Procs : \A k \in GitOps(i) :
        /\ calls[i][k].op = "git.clone" => Truthy(calls[i][k].arg.url)
        /\ calls[i][k].op = "initRepoAndPush" => Truthy(calls[i][k].arg.remoteUrl)

\* C27 as stated: on every answer to a lookup the three copies of the lookup
\* all fail, or all return, and then the same remoteUrl.
C27_LookupsAgreeOnEveryAnswer ==
    \A i \in Procs : \A k \in RepoLookups(i) :
        LET util    == getRepoInfo(calls[i][k].resp)
            local   == getRepoInfoClone(calls[i][k].resp)
            publish == getRepositoryRemoteUrl(calls[i][k].resp)
        IN  \/ util.thrown # NoVal /\ local.thrown # NoVal /\ publish.thrown # NoVal
            \/ /\ util.thrown = NoVal /\ local.thrown = NoVal /\ publish.thrown = NoVal
               /\ util.value.remoteUrl = publish.value.remoteUrl
               /\ local.value.remoteUrl = publish.value.remoteUrl

\* C27 amended: on every answer to a lookup the two getRepoInfo fail or
\* return together; when they return, getRepositoryRemoteUrl returns too and
\* all three give the href of the last clone link named http (the empty
\* string when there is none); when getRepositoryRemoteUrl fails the other
\* two fail with the same error; the one difference is a 200 answer with an
\* empty self list, where the two getRepoInfo fail with a TypeError and
\* getRepositoryRemoteUrl returns the remoteUrl.
C27_LookupsAgreeUpToSelfLink ==
    \A i \in Procs : \A k \in RepoLookups(i) :
        LET resp    == calls[i][k].resp
            util    == getRepoInfo(resp)
            local   == getRepoInfoClone(resp)
            publish == getRepositoryRemoteUrl(resp)
        IN  /\ util.thrown = local.thrown
            /\ util.message = local.message
            /\ util.thrown = NoVal
               => /\ publish.thrown = NoVal
                  /\ util.value.remoteUrl = LastHttp(resp.body.clone)
                  /\ local.value.remoteUrl = LastHttp(resp.body.clone)
                  /\ publish.value.remoteUrl = LastHttp(resp.body.clone)
            /\ publish.thrown # NoVal
               => (util.thrown = publish.thrown /\ util.message = publish.message)
            /\ (publish.thrown = NoVal /\ util.thrown # NoVal)
               => /\ resp.status = 200
                  /\ resp.body.self = <<>>
                  /\ util.thrown = "TypeError"
                  /\ publish.value.remoteUrl = LastHttp(resp.body.clone)

\* C27 witness: a publish push has looked up a repository with two clone
\* links named http and a self link, and goes on with the href of the second.
C27_Witness ==
    \E i \in Procs :
        /\ input[i].kind = "publishPush"
        /\ Len(calls[i]) = 1
        /\ calls[i][1].resp.status = 200
        /\ calls[i][1].resp.body.clone = <<[name |-> "http", href |-> "u1"],
                                           [name |-> "http", href |-> "u2"]>>
        /\ calls[i][1].resp.body.self # <<>>
        /\ pc[i] = "gitPush"
        /\ loc[i].record.remoteUrl = "u2"
        /\ getRepoInfo(calls[i][1].resp).value.remoteUrl = "u2"

\* C28: in every action a started invocation without integration
\* configuration for its host has failed with NoIntegration, with no
\* credential resolved, no call and no output, unless the project is missing;
\* the checks run project, integration configuration, authorization, and the
\* first that fails gives the error.
C28_ChecksInOrder ==
    \A i \in Procs :
        pc[i] # "start"
        => LET in == input[i]
           IN  /\ in.project = ""
                  => (pc[i] = "failed" /\ err[i] = "InvalidLocation")
               /\ (in.project # "" /\ ~in.hasIntegration)
                  => /\ pc[i] = "failed"
                     /\ err[i] = "NoIntegration"
                     /\ loc[i].authorization = NoAuthorization
                     /\ loc[i].auth = NoGitAuth
                     /\ calls[i] = <<>>
                     /\ out[i] = <<>>
               /\ (in.project # "" /\ in.hasIntegration /\ NoCredentials(in))
                  => (pc[i] = "failed" /\ err[i] = "MissingCredentials")
               /\ err[i] \in {"InvalidLocation", "NoIntegration", "MissingCredentials"}
                  => (calls[i] = <<>> /\ out[i] = <<>>)

\* C28 witness: a pull-request open with a project and a token but no
\* integration configuration has failed with NoIntegration before any call.
C28_Witness ==
    \E i \in Procs :
        /\ input[i].kind = "pullRequestOpen"
        /\ input[i].project = "TEAM"
        /\ ~input[i].hasIntegration
        /\ input[i].token = "tokO"
        /\ pc[i] = "failed"
        /\ err[i] = "NoIntegration"
        /\ calls[i] = <<>>

====
